---------------------------- MODULE Spec2Model ----------------------------
(***************************************************************************)
(* Cross-exchange arbitrage simulation (hony2323/trade-maker).             *)
(*                                                                         *)
(*   SimulatedExchange   src/src/trading/exchanges/simulated_exchange.py   *)
(*   ArbitrageDetector   src/src/trading/arbitrage_detector.py             *)
(*   MessageProcessor    src/src/trading/message_proccesor.py              *)
(*                                                                         *)
(* Numbers.  Python floats are modelled as exact rationals.  Money is an   *)
(* integer number of 1/FeeRateDen quote units, so that the margin          *)
(* price*amount/leverage and the fee amount*price*fee_rate are integers    *)
(* for integer prices and amounts.  Percent comparisons are done by cross  *)
(* multiplication (all prices are positive).  For the prices used here     *)
(* the double precision results of the source agree with the rationals.    *)
(* created_at / closed_at (wall clock) are left out of the order records.  *)
(***************************************************************************)
EXTENDS Integers, Sequences, FiniteSets, TLC

VARIABLES
    sims,              \* venue -> SimulatedExchange state
    price_state,       \* ArbitrageDetector.price_state: venue -> symbol -> deque
    price_keys,        \* insertion order of the venues in price_state (dict order)
    position_tracker,  \* MessageProcessor.position_tracker
    last,              \* the last call made and what it returned or raised
    pre,               \* sims as they were before the last call
    pre_tracker,       \* position_tracker as it was before the last call
    ticks,             \* every message process_message has been given, in order
    consumers,         \* consumer -> its position in the delivery loop and its log
    nops,              \* number of calls made so far
    disk               \* venue -> the snapshot file storage/<venue>_state.json

vars == <<sims, price_state, price_keys, position_tracker, last, pre, nops, disk,
          ticks, consumers, pre_tracker>>

---------------------------------------------------------------------------
\* Bounds of the model

MaxOps == 5            \* calls in one behaviour
MaxAmount == 2         \* amounts passed to place_order / close_position: 0..MaxAmount
InitialFunds == 105    \* initial_funds = {"USD": InitialFunds} of every venue
HistorySize == 2       \* history_size the detector is constructed with
MaxSimOps == 3         \* calls in one behaviour of SpecSim
SimFunds == 250        \* initial_funds = {"USD": SimFunds} in SpecSim
MaxLossOps == 4        \* calls in one behaviour of SpecLoss
LossFunds == 101       \* initial_funds = {"USD": LossFunds} in SpecLoss
MaxDeliveries == 2     \* deliveries one consumer is handed in SpecConsumer
MaxCoordOps == 4       \* calls in one behaviour of SpecCoord
CoordFunds == 25       \* initial_funds = {"USD": CoordFunds} in SpecCoord

---------------------------------------------------------------------------
\* Program constants (constructor defaults)

FeeRateDen == 1000        \* fee_rate = 0.001 = FeeRateNum/FeeRateDen
FeeRateNum == 1
Leverage == 10            \* leverage = 10
ThresholdNum == 5         \* threshold = 0.5 = ThresholdNum/ThresholdDen  (percent)
ThresholdDen == 10
AlignNum == 1             \* alignment_threshold = 0.01 = AlignNum/AlignDen
AlignDen == 100
BaseTradeAmount == 10     \* base_trade_amount = 10

Venues == {"A", "B"}
\* the forms in which a tick names an instrument
TickIds == {"BTC-USD", "BTC/USD"}

Symbols == {"BTC/USD", "ETH/USD"}
InstrumentIds == {"BTC-USD"}

\* the strings a venue's price_state dict can have as keys: what a tick names
\* and what it is turned into
HistoryKeys == Symbols \cup InstrumentIds \cup TickIds
Prices == {1000, 1005, 1010, 1100}
Amounts == 0 .. MaxAmount
Sides == {"buy", "sell"}

None == -1   \* Python None in an entry price slot (prices are positive)

\* instrument_id.replace("-", "/")
CanonKeepsDash(instrument_id) ==
    instrument_id
Canon(instrument_id) ==
    CASE instrument_id = "BTC-USD" -> "BTC/USD"
      [] instrument_id = "ETH-USD" -> "ETH/USD"
      [] OTHER -> instrument_id

\* base_asset, quote_asset = symbol.split('/')
Quote(symbol) ==
    CASE symbol = "BTC/USD" -> "USD"
      [] symbol = "ETH/USD" -> "USD"
      [] OTHER -> "USD"

Assets == {"USD", "BTC", "ETH"}

Abs(x) == IF x < 0 THEN -x ELSE x

\* Money: quote units scaled by FeeRateDen
Scaled(x) == x * FeeRateDen

---------------------------------------------------------------------------
\* SimulatedExchange

\* defaultdict(lambda: {"long": 0, "short": 0, "long_entry_price": None, ...})
DefaultPosition ==
    [long |-> 0, short |-> 0, long_entry_price |-> None, short_entry_price |-> None]

\* the else branch of SimulatedExchange.__init__ with initial_funds =
\* {"USD": initial_funds}; fee_rate counts 1/FeeRateDen.  real_balance is a
\* defaultdict(float): an asset without an entry reads as 0, which is how the
\* function below represents it.  positions keeps its key set, since reading
\* positions[symbol] inserts the default entry.
NewSimulator(initial_funds, fee_rate, persist) ==
    [fee_rate       |-> fee_rate,
     leverage       |-> Leverage,
     persist        |-> persist,
     real_balance   |-> [a \in Assets |-> IF a = "USD" THEN Scaled(initial_funds) ELSE 0],
     loaned_balance |-> [a \in Assets |-> 0],
     positions      |-> << >>,
     orders         |-> << >>]

\* the snapshot file of a venue: << >> while it does not exist, <<text>> after
\* a write
NoFile == << >>

\* json.dump / json.load of an entry price: None is written as null
JsonDump(x) == IF x = None THEN <<"null">> ELSE <<"number", x>>
\* variant: null is read back as the number 0
JsonLoadNullAsZero(j) == IF j[1] = "null" THEN 0 ELSE j[2]

JsonLoad(j) == IF j[1] = "null" THEN None ELSE j[2]

PositionFields == {"long", "short", "long_entry_price", "short_entry_price"}

\* the state dictionary _save_persistent_data writes
Snapshot(sim) ==
    [real_balance   |-> sim.real_balance,
     loaned_balance |-> sim.loaned_balance,
     positions      |-> [s \in DOMAIN sim.positions |->
                            [f \in PositionFields |-> JsonDump(sim.positions[s][f])]],
     orders         |-> sim.orders]

\* _save_persistent_data: the file after the call
\* (the name of the method without its leading underscore)
save_persistent_data(sim, file) ==
    IF ~sim.persist THEN file ELSE <<Snapshot(sim)>>

\* _load_persistent_data: the four attributes read back from the file
load_persistent_data(sim, file) ==
    LET state == file[1]
    IN  [sim EXCEPT
           !.real_balance   = state.real_balance,
           !.loaned_balance = state.loaned_balance,
           !.positions      = [s \in DOMAIN state.positions |->
                                  [f \in PositionFields |->
                                      JsonLoad(state.positions[s][f])]],
           !.orders         = state.orders]

\* SimulatedExchange(exchange_name, initial_funds, fee_rate, persist=persist):
\* the simulator constructed and the venue's file afterwards
SimulatedExchange(initial_funds, fee_rate, persist, file) ==
    LET fresh == NewSimulator(initial_funds, fee_rate, persist)
    IN  IF persist /\ file # NoFile
        THEN [sim |-> load_persistent_data(fresh, file), file |-> file]
        ELSE [sim |-> fresh, file |-> save_persistent_data(fresh, file)]

\* variant: the orders survive a reset
hard_reset_keeps_orders(sim, initial_funds) ==
    [sim EXCEPT
       !.real_balance   = [a \in Assets |-> IF a = "USD" THEN Scaled(initial_funds) ELSE 0],
       !.loaned_balance = [a \in Assets |-> 0],
       !.positions      = << >>]

\* hard_reset(initial_funds) with initial_funds = {"USD": initial_funds}
\* (0 stands for no funds given)
hard_reset(sim, initial_funds) ==
    [sim EXCEPT
       !.real_balance   = [a \in Assets |-> IF a = "USD" THEN Scaled(initial_funds) ELSE 0],
       !.loaned_balance = [a \in Assets |-> 0],
       !.positions      = << >>,
       !.orders         = << >>]

\* positions[symbol] of a defaultdict: the read inserts the default entry
Touch(positions, symbol) ==
    IF symbol \in DOMAIN positions THEN positions
    ELSE (symbol :> DefaultPosition) @@ positions

\* get_fee: amount * price * fee_rate   (scaled money)
get_fee(sim, amount, price) == amount * price * sim.fee_rate

\* margin_cost = (price * amount) / leverage   (scaled money)
margin_cost(sim, amount, price) == (price * amount * FeeRateDen) \div sim.leverage

\* variant: the fee is left out of the cost
total_cost_no_fee(sim, amount, price) == margin_cost(sim, amount, price)

\* total_cost = margin_cost + fee
total_cost(sim, amount, price) ==
    margin_cost(sim, amount, price) + get_fee(sim, amount, price)

\* variant: the debit is made before the balance check raises
place_order_debits_on_failure(sim, symbol, side, amount, price) ==
    [sim EXCEPT !.real_balance[Quote(symbol)] = @ - total_cost(sim, amount, price)]

\* the state place_order leaves when the balance check raises: nothing was
\* assigned before the raise
place_order_raise(sim, symbol, side, amount, price) == sim

\* the order record appended by place_order
PlaceRecord(sim, symbol, side, amount, price) ==
    [symbol |-> symbol, side |-> side, amount |-> amount, price |-> price,
     fee |-> get_fee(sim, amount, price)]

\* place_order when no balance check fails: the debit, the quantity and the
\* entry price of the side's branch, then the order record
place_order_ok(sim, symbol, side, amount, price) ==
    LET q   == Quote(symbol)
        pos == Touch(sim.positions, symbol)
        qty == IF side = "buy" THEN "long" ELSE "short"
        ep  == IF side = "buy" THEN "long_entry_price" ELSE "short_entry_price"
    IN  IF side \in {"buy", "sell"}
        THEN [sim EXCEPT
                !.real_balance[q] = @ - total_cost(sim, amount, price),
                !.positions = [pos EXCEPT
                                  ![symbol][qty] = @ + amount,
                                  ![symbol][ep] = IF @ = None THEN price ELSE @],
                !.orders = Append(@, PlaceRecord(sim, symbol, side, amount, price))]
        ELSE [sim EXCEPT
                !.orders = Append(@, PlaceRecord(sim, symbol, side, amount, price))]

\* variant: the order is accepted whatever the balance
place_order_unchecked(sim, symbol, side, amount, price) ==
    [err |-> "none", sim |-> place_order_ok(sim, symbol, side, amount, price)]

\* place_order(symbol, side, amount, price) up to the order record: [err, sim]
place_order_silent(sim, symbol, side, amount, price) ==
    IF /\ side \in {"buy", "sell"}
       /\ sim.real_balance[Quote(symbol)] < total_cost(sim, amount, price)
    THEN [err |-> "none", sim |-> sim]
    ELSE [err |-> "none",
          sim |-> place_order_ok(sim, symbol, side, amount, price)]
place_order(sim, symbol, side, amount, price) ==
    IF /\ side \in {"buy", "sell"}
       /\ sim.real_balance[Quote(symbol)] < total_cost(sim, amount, price)
    THEN [err |-> "InsufficientBalance",
          sim |-> place_order_raise(sim, symbol, side, amount, price)]
    ELSE [err |-> "none",
          sim |-> place_order_ok(sim, symbol, side, amount, price)]

\* the order record appended by close_position
CloseRecord(symbol, side, amount, price, pnl) ==
    [symbol |-> symbol, side |-> side, amount |-> amount, price |-> price,
     pnl |-> pnl]

\* variant: the fee is not charged on a close
ClosePnlNoFee(sim, side, entry_price, amount, price) ==
    IF side = "long"
    THEN Scaled((price - entry_price) * amount)
    ELSE Scaled((entry_price - price) * amount)

\* pnl of a close (scaled money)
ClosePnl(sim, side, entry_price, amount, price) ==
    IF side = "long"
    THEN Scaled((price - entry_price) * amount) - get_fee(sim, amount, price)
    ELSE Scaled((entry_price - price) * amount) - get_fee(sim, amount, price)

\* entry_price * amount / leverage (scaled money)
ReleasedMargin(sim, entry_price, amount) ==
    (entry_price * amount * FeeRateDen) \div sim.leverage

\* variant: the size of the position is not checked
close_position_error_no_size(sim, symbol, side, amount) ==
    LET ep == IF side = "long" THEN "long_entry_price" ELSE "short_entry_price"
    IN  IF symbol \notin DOMAIN sim.positions THEN "NoSuchPosition"
        ELSE IF sim.positions[symbol][ep] = None THEN "EntryPriceMissing"
        ELSE "none"

\* the checks of close_position in their order: the ValueError raised, named
\* after what it reports, or "none"
close_position_error(sim, symbol, side, amount) ==
    LET ep == IF side = "long" THEN "long_entry_price" ELSE "short_entry_price"
    IN  IF symbol \notin DOMAIN sim.positions THEN "NoSuchPosition"
        ELSE IF sim.positions[symbol][side] < amount THEN "InsufficientPositionSize"
        ELSE IF sim.positions[symbol][ep] = None THEN "EntryPriceMissing"
        ELSE "none"

\* close_position(symbol, side, amount, price) up to the order record:
\* [err, sim, pnl, entry_price]; side is "long" or "short"
close_position(sim, symbol, side, amount, price) ==
    LET ep  == IF side = "long" THEN "long_entry_price" ELSE "short_entry_price"
        err == close_position_error(sim, symbol, side, amount)
    IN  IF err # "none"
        THEN [err |-> err, sim |-> sim, pnl |-> 0, entry_price |-> None]
        ELSE
          LET entry == sim.positions[symbol][ep]
              pnl   == ClosePnl(sim, side, entry, amount, price)
              left  == sim.positions[symbol][side] - amount
          IN  [err |-> "none",
               sim |-> [sim EXCEPT
                          !.real_balance[Quote(symbol)] =
                              @ + pnl + ReleasedMargin(sim, entry, amount),
                          !.positions[symbol][side] = left,
                          !.positions[symbol][ep] = IF left = 0 THEN None ELSE @,
                          !.orders = Append(@, CloseRecord(symbol, side, amount,
                                                           price, pnl))],
               pnl |-> pnl,
               entry_price |-> entry]

---------------------------------------------------------------------------
\* ArbitrageDetector

\* update_prices: the venue's deque for the symbol, oldest entry dropped when
\* it already holds history_size entries
update_prices_evicts_late(ps, exchange_name, symbol, price, timestamp) ==
    LET dq   == ps[exchange_name][symbol]
        kept == IF Len(dq) > HistorySize THEN Tail(dq) ELSE dq
    IN  [ps EXCEPT ![exchange_name][symbol] =
            Append(kept, [price |-> price, timestamp |-> timestamp])]
update_prices(ps, exchange_name, symbol, price, timestamp) ==
    LET dq   == ps[exchange_name][symbol]
        kept == IF Len(dq) >= HistorySize THEN Tail(dq) ELSE dq
    IN  [ps EXCEPT ![exchange_name][symbol] =
            Append(kept, [price |-> price, timestamp |-> timestamp])]

\* price_state.items(): a dict iterates in insertion order of its keys
update_keys(keys, exchange_name) ==
    IF \E i \in 1 .. Len(keys) : keys[i] = exchange_name
    THEN keys ELSE Append(keys, exchange_name)

\* prices = {exchange: newest price} for the exchanges that have the symbol,
\* as the sequence of its keys and the lookup
PricedVenues(ps, keys, symbol) ==
    SelectSeq(keys, LAMBDA v : Len(ps[v][symbol]) > 0)

Latest(ps, v, symbol) == ps[v][symbol][Len(ps[v][symbol])].price

\* the nested loops "for buy in prices: for sell in prices: if buy == sell: continue"
OrderedPairs(vs) ==
    LET n   == Len(vs)
        all == [k \in 1 .. n * n |-> <<vs[((k - 1) \div n) + 1], vs[((k - 1) % n) + 1]>>]
    IN  SelectSeq(all, LAMBDA pr : pr[1] # pr[2])

\* spread = ((sell_price - buy_price) / buy_price) * 100 >= threshold
SpreadAtLeastThreshold(buy_price, sell_price) ==
    (sell_price - buy_price) * 100 * ThresholdDen >= ThresholdNum * buy_price

\* abs((buy_price - sell_price) / sell_price) <= alignment_threshold
Aligned(buy_price, sell_price) ==
    Abs(buy_price - sell_price) * AlignDen <= AlignNum * sell_price

\* positions[symbol][field] read through the defaultdict
PosGet(sim, symbol, field) ==
    IF symbol \in DOMAIN sim.positions THEN sim.positions[symbol][field]
    ELSE DefaultPosition[field]

\* variant: the position check of the first loop is left out
OpenGuardAlways(ss, buy_exchange, sell_exchange, symbol) == TRUE

\* buy_simulator.positions[symbol]["long"] == 0 and
\* sell_simulator.positions[symbol]["short"] == 0
OpenGuard(ss, buy_exchange, sell_exchange, symbol) ==
    /\ PosGet(ss[buy_exchange], symbol, "long") = 0
    /\ PosGet(ss[sell_exchange], symbol, "short") = 0

OpenOpportunity(ps, symbol, b, s) ==
    [type |-> "open", symbol |-> symbol,
     buy_exchange |-> b, buy_price |-> Latest(ps, b, symbol),
     sell_exchange |-> s, sell_price |-> Latest(ps, s, symbol),
     spread |-> <<(Latest(ps, s, symbol) - Latest(ps, b, symbol)) * 100,
                  Latest(ps, b, symbol)>>]

Min(x, y) == IF x <= y THEN x ELSE y

CloseOpportunity(ss, ps, symbol, b, s) ==
    [type |-> "close", symbol |-> symbol,
     buy_exchange |-> b, buy_price |-> Latest(ps, b, symbol),
     sell_exchange |-> s, sell_price |-> Latest(ps, s, symbol),
     amount |-> Min(ss[b].positions[symbol].long, ss[s].positions[symbol].short)]

\* the pairs of the first loop that append an "open"
OpenEligible(ss, ps, symbol, b, s) ==
    /\ SpreadAtLeastThreshold(Latest(ps, b, symbol), Latest(ps, s, symbol))
    /\ OpenGuard(ss, b, s, symbol)

\* the pairs of the second loop that append a "close"
CloseEligible(ss, ps, symbol, b, s) ==
    /\ symbol \in DOMAIN ss[b].positions
    /\ ss[b].positions[symbol].long > 0
    /\ symbol \in DOMAIN ss[s].positions
    /\ ss[s].positions[symbol].short > 0
    /\ Aligned(Latest(ps, b, symbol), Latest(ps, s, symbol))

\* the simulators after detect_opportunity: the first loop reads
\* buy_simulator.positions[symbol] when the spread reaches the threshold, and
\* sell_simulator.positions[symbol] when moreover the buy side holds no long
DetectTouches(ss, ps, keys, symbol) ==
    LET vs    == PricedVenues(ps, keys, symbol)
        pairs == OrderedPairs(vs)
        hot(i) == SpreadAtLeastThreshold(Latest(ps, pairs[i][1], symbol),
                                         Latest(ps, pairs[i][2], symbol))
        touched(v) ==
            \E i \in 1 .. Len(pairs) :
                /\ hot(i)
                /\ \/ pairs[i][1] = v
                   \/ /\ pairs[i][2] = v
                      /\ PosGet(ss[pairs[i][1]], symbol, "long") = 0
    IN  IF Len(vs) < 2 THEN ss
        ELSE [v \in DOMAIN ss |->
                 IF touched(v)
                 THEN [ss[v] EXCEPT !.positions = Touch(@, symbol)]
                 ELSE ss[v]]

\* detect_opportunity(symbol): the list returned (<< >> stands for None)
detect_opportunity(ss, ps, keys, symbol) ==
    LET vs    == PricedVenues(ps, keys, symbol)
        pairs == OrderedPairs(vs)
        after == DetectTouches(ss, ps, keys, symbol)
        opens  == SelectSeq(pairs, LAMBDA pr : OpenEligible(ss, ps, symbol, pr[1], pr[2]))
        closes == SelectSeq(pairs, LAMBDA pr : CloseEligible(after, ps, symbol, pr[1], pr[2]))
        mkOpen(pr)  == OpenOpportunity(ps, symbol, pr[1], pr[2])
        mkClose(pr) == CloseOpportunity(after, ps, symbol, pr[1], pr[2])
    IN  IF Len(vs) < 2 THEN << >>
        ELSE [i \in 1 .. Len(opens) |-> mkOpen(opens[i])]
                 \o [i \in 1 .. Len(closes) |-> mkClose(closes[i])]

---------------------------------------------------------------------------
\* MessageProcessor

\* def detect_opportunity(self, symbol): the parameters after self
DetectOpportunityParams == <<"symbol">>

\* self.arbitrage_detector.detect_opportunity(symbol, self.position_tracker):
\* the arguments process_message passes
ProcessMessageDetectArgs == <<"symbol", "position_tracker">>

\* Python binds positional arguments to parameters one to one; a call with more
\* arguments than the method has parameters raises TypeError before the body runs
CallRaisesTypeError(args, params) == Len(args) > Len(params)

\* what the call of line 18 does: with these signatures it raises
DetectCall ==
    IF CallRaisesTypeError(ProcessMessageDetectArgs, DetectOpportunityParams)
    THEN "TypeError" ELSE "none"

\* "except Exception as e": the clause matches every exception the handlers'
\* code can raise (TypeError, ValueError, KeyError and AttributeError are all
\* subclasses of Exception); "none" stands for no exception
ExceptException(err) == err # "none"

\* process_message(message): update_prices, then the detector call.  The call
\* raises TypeError (two arguments for the one parameter "symbol") before the
\* detector's body runs; the handler's "except Exception" prints and swallows
\* it.  The loop over the opportunities (_execute_arbitrage, _save_position,
\* _close_positions) is therefore never entered: the simulators and the
\* tracker are left as they are.
process_message(ss, ps, keys, tracker, exchange_name, instrument_id, price, timestamp) ==
    LET symbol == Canon(instrument_id)
    IN  [sims             |-> ss,
         price_state      |-> update_prices(ps, exchange_name, symbol, price, timestamp),
         price_keys       |-> update_keys(keys, exchange_name),
         position_tracker |-> tracker,
         err              |-> DetectCall,
         raised           |-> IF ExceptException(DetectCall) THEN "none" ELSE DetectCall]

\* f"{buy_exchange}-{sell_exchange}"
PairKey(buy_exchange, sell_exchange) ==
    CASE buy_exchange = "A" /\ sell_exchange = "A" -> "A-A"
      [] buy_exchange = "A" /\ sell_exchange = "B" -> "A-B"
      [] buy_exchange = "B" /\ sell_exchange = "A" -> "B-A"
      [] buy_exchange = "B" /\ sell_exchange = "B" -> "B-B"
      [] buy_exchange = "A" /\ sell_exchange = "C" -> "A-C"
      [] buy_exchange = "B" /\ sell_exchange = "C" -> "B-C"
      [] buy_exchange = "C" /\ sell_exchange = "A" -> "C-A"
      [] buy_exchange = "C" /\ sell_exchange = "B" -> "C-B"
      [] buy_exchange = "C" /\ sell_exchange = "C" -> "C-C"

\* quote_amount = self.base_trade_amount * self.simulators[buy_exchange].leverage
quote_amount(ss, buy_exchange) == BaseTradeAmount * ss[buy_exchange].leverage

\* base_amount = quote_amount / buy_price (the model's buy prices divide the
\* quote amount, so the quotient is exact)
base_amount_at_sell_price(ss, opportunity) ==
    quote_amount(ss, opportunity.buy_exchange) \div opportunity.sell_price
base_amount(ss, opportunity) ==
    quote_amount(ss, opportunity.buy_exchange) \div opportunity.buy_price

\* one call the coordinator makes on a venue's simulator, and how it ended
Call(venue, op, side, amount, price, err) ==
    [venue |-> venue, op |-> op, side |-> side, amount |-> amount,
     price |-> price, err |-> err]

\* _execute_arbitrage(opportunity): place_order("buy") on the buy venue, then
\* place_order("sell") on the sell venue with the same amount; an exception of
\* either call is printed and raised again, so the second call is not made
\* when the first raises.  [err, sims, calls, position]
execute_arbitrage_sell_first(ss, opportunity) ==
    LET symbol == opportunity.symbol
        b      == opportunity.buy_exchange
        s      == opportunity.sell_exchange
        amount == base_amount(ss, opportunity)
        sell   == place_order(ss[s], symbol, "sell", amount, opportunity.sell_price)
        ss1    == [ss EXCEPT ![s] = sell.sim]
        buy    == place_order(ss1[b], symbol, "buy", amount, opportunity.buy_price)
        ss2    == [ss1 EXCEPT ![b] = buy.sim]
        c1     == Call(s, "place_order", "sell", amount, opportunity.sell_price, sell.err)
        c2     == Call(b, "place_order", "buy", amount, opportunity.buy_price, buy.err)
    IN  IF sell.err # "none"
        THEN [err |-> sell.err, sims |-> ss1, calls |-> <<c1>>, position |-> << >>]
        ELSE IF buy.err # "none"
        THEN [err |-> buy.err, sims |-> ss2, calls |-> <<c1, c2>>, position |-> << >>]
        ELSE [err |-> "none", sims |-> ss2, calls |-> <<c1, c2>>,
              position |-> [symbol |-> symbol, buy_exchange |-> b,
                            sell_exchange |-> s,
                            buy_price |-> opportunity.buy_price,
                            sell_price |-> opportunity.sell_price,
                            amount |-> amount, pair_key |-> PairKey(b, s)]]
execute_arbitrage(ss, opportunity) ==
    LET symbol == opportunity.symbol
        b      == opportunity.buy_exchange
        s      == opportunity.sell_exchange
        amount == base_amount(ss, opportunity)
        buy    == place_order(ss[b], symbol, "buy", amount, opportunity.buy_price)
        ss1    == [ss EXCEPT ![b] = buy.sim]
        sell   == place_order(ss1[s], symbol, "sell", amount, opportunity.sell_price)
        ss2    == [ss1 EXCEPT ![s] = sell.sim]
        c1     == Call(b, "place_order", "buy", amount, opportunity.buy_price, buy.err)
        c2     == Call(s, "place_order", "sell", amount, opportunity.sell_price, sell.err)
    IN  IF buy.err # "none"
        THEN [err |-> buy.err, sims |-> ss1, calls |-> <<c1>>, position |-> << >>]
        ELSE IF sell.err # "none"
        THEN [err |-> sell.err, sims |-> ss2, calls |-> <<c1, c2>>, position |-> << >>]
        ELSE [err |-> "none", sims |-> ss2, calls |-> <<c1, c2>>,
              position |-> [symbol |-> symbol, buy_exchange |-> b,
                            sell_exchange |-> s,
                            buy_price |-> opportunity.buy_price,
                            sell_price |-> opportunity.sell_price,
                            amount |-> amount, pair_key |-> PairKey(b, s)]]

\* _save_position(position):
\* self.position_tracker.setdefault(pair_key, {})[symbol] = {...}
save_position(tracker, position) ==
    LET pk    == position.pair_key
        inner == IF pk \in DOMAIN tracker THEN tracker[pk] ELSE << >>
        entry == [buy_exchange |-> position.buy_exchange,
                  sell_exchange |-> position.sell_exchange,
                  amount |-> position.amount]
        set   == [sym \in DOMAIN inner \cup {position.symbol} |->
                     IF sym = position.symbol THEN entry ELSE inner[sym]]
    IN  [k \in DOMAIN tracker \cup {pk} |-> IF k = pk THEN set ELSE tracker[k]]

\* self.position_tracker.get(pair_key, {}).get(symbol, {}).get("amount")
TrackerAmountAlwaysOne(tracker, pair_key, symbol) ==
    1
TrackerAmount(tracker, pair_key, symbol) ==
    IF pair_key \in DOMAIN tracker /\ symbol \in DOMAIN tracker[pair_key]
    THEN tracker[pair_key][symbol].amount
    ELSE None

\* del self.position_tracker[pair_key][symbol]
delete_position_keeps(tracker, pair_key, symbol) ==
    tracker
delete_position(tracker, pair_key, symbol) ==
    [k \in DOMAIN tracker |->
        IF k = pair_key
        THEN [sym \in DOMAIN tracker[k] \ {symbol} |-> tracker[k][sym]]
        ELSE tracker[k]]

\* the attributes ArbitrageDetector.__init__ sets
DetectorAttributes ==
    {"simulators", "threshold", "alignment_threshold", "history_size", "price_state"}

\* the pair keys the detector holds as active: ArbitrageDetector.__init__
\* creates no such set and no method adds to one, so no key is ever in it
ActivePairs ==
    IF "arbitrage_pairs" \in DetectorAttributes THEN {"A-B", "B-A"} ELSE {}

\* self.arbitrage_detector.arbitrage_pairs.discard(pair_key)
DiscardPair ==
    IF "arbitrage_pairs" \in DetectorAttributes THEN "none" ELSE "AttributeError"

\* _close_positions(opportunity): the pair_key is read from the opportunity
\* (KeyError when it has none), the amount from the tracker (return when there
\* is none), then close_position("long") on the buy venue, close_position(
\* "short") on the sell venue, the tracker entry is deleted and the pair is
\* discarded from the detector's set.  Any exception is printed and None is
\* returned.  [err, sims, tracker, calls]
close_positions(ss, tracker, opportunity) ==
    IF "pair_key" \notin DOMAIN opportunity
    THEN [err |-> "KeyError", sims |-> ss, tracker |-> tracker, calls |-> << >>]
    ELSE
      LET symbol == opportunity.symbol
          b      == opportunity.buy_exchange
          s      == opportunity.sell_exchange
          amount == TrackerAmount(tracker, opportunity.pair_key, symbol)
          buy    == close_position(ss[b], symbol, "long", amount, opportunity.buy_price)
          ss1    == [ss EXCEPT ![b] = buy.sim]
          sell   == close_position(ss1[s], symbol, "short", amount,
                                   opportunity.sell_price)
          ss2    == [ss1 EXCEPT ![s] = sell.sim]
          c1     == Call(b, "close_position", "long", amount,
                         opportunity.buy_price, buy.err)
          c2     == Call(s, "close_position", "short", amount,
                         opportunity.sell_price, sell.err)
      IN  IF amount = None \/ amount = 0
          THEN [err |-> "none", sims |-> ss, tracker |-> tracker, calls |-> << >>]
          ELSE IF buy.err # "none"
          THEN [err |-> buy.err, sims |-> ss1, tracker |-> tracker, calls |-> <<c1>>]
          ELSE IF sell.err # "none"
          THEN [err |-> sell.err, sims |-> ss2, tracker |-> tracker,
                calls |-> <<c1, c2>>]
          ELSE [err |-> DiscardPair, sims |-> ss2,
                tracker |-> delete_position(tracker, opportunity.pair_key, symbol),
                calls |-> <<c1, c2>>]

---------------------------------------------------------------------------
\* The consumers: RMQConsumer.consume and MarketDataConsumer._on_message

Consumers == {"RMQConsumer", "MarketDataConsumer"}

\* a delivery's body: a JSON document, or bytes json.loads rejects
Bodies == {"json", "malformed"}

\* what one consumer is doing (pc), the delivery tag it holds, the body of
\* that delivery, and the log of what it has done for each tag
NewConsumer == [pc |-> "idle", tag |-> 0, body |-> "", log |-> << >>]

Event(tag, ev, requeue) == [tag |-> tag, ev |-> ev, requeue |-> requeue]

\* the statement before the callback: RMQConsumer passes body.decode() on;
\* MarketDataConsumer parses it with json.loads, which raises on a malformed
\* body
BeforeCallbackRaises(c, body) == c = "MarketDataConsumer" /\ body = "malformed"

\* try: callback(...); basic_ack(tag)  except Exception: basic_nack(tag,
\* requeue=False): the acknowledgement the handler sends for what the try
\* block did
AckAlways(pc) ==
    Event(0, "basic_ack", FALSE)
Acknowledgement(pc) ==
    IF pc = "returned" THEN Event(0, "basic_ack", FALSE)
    ELSE Event(0, "basic_nack", FALSE)

---------------------------------------------------------------------------
\* The state machine

NoCall ==
    [op |-> "init", venue |-> "", symbol |-> "", side |-> "", amount |-> 0,
     price |-> 0, err |-> "none", raised |-> "none", ret |-> << >>]

\* a simulator on which one unit of the symbol has been bought and / or sold
\* at 1000, as place_order leaves it
Holding(sim, symbol, sides) ==
    LET bought == IF "buy" \in sides
                  THEN place_order(sim, symbol, "buy", 1, 1000).sim ELSE sim
    IN  IF "sell" \in sides
        THEN place_order(bought, symbol, "sell", 1, 1000).sim ELSE bought

\* main.py: one simulator per venue, constructed while no snapshot file
\* exists, the detector and the coordinator; held gives the orders already
\* placed on each venue
InitHolding(funds, fee_rate, persist, symbol, held) ==
    /\ sims = [v \in Venues |->
                 Holding(SimulatedExchange(funds, fee_rate, persist, NoFile).sim,
                         symbol, held[v])]
    /\ disk = [v \in Venues |-> SimulatedExchange(funds, fee_rate, persist, NoFile).file]
    /\ price_state = [v \in Venues |-> [s \in HistoryKeys |-> << >>]]
    /\ price_keys = << >>
    /\ position_tracker = << >>
    /\ ticks = << >>
    /\ consumers = [c \in Consumers |-> NewConsumer]
    /\ last = NoCall
    /\ pre = sims
    /\ pre_tracker = position_tracker
    /\ nops = 0

InitWith(funds, fee_rate, persist) ==
    InitHolding(funds, fee_rate, persist, "", [v \in Venues |-> {}])

Init == InitWith(InitialFunds, FeeRateNum, FALSE)

\* the consumer hands one tick to MessageProcessor.process_message
ProcessMessage(exchange_name, instrument_id, price) ==
    LET r == process_message(sims, price_state, price_keys, position_tracker,
                             exchange_name, instrument_id, price, nops + 1)
    IN  /\ nops < MaxOps
        /\ sims' = r.sims
        /\ price_state' = r.price_state
        /\ price_keys' = r.price_keys
        /\ position_tracker' = r.position_tracker
        /\ last' = [op |-> "process_message", venue |-> exchange_name,
                    symbol |-> Canon(instrument_id), side |-> "", amount |-> 0,
                    price |-> price, err |-> r.err, raised |-> r.raised,
                    ret |-> << >>]
        /\ pre' = sims
        /\ pre_tracker' = position_tracker
        /\ nops' = nops + 1
        /\ ticks' = Append(ticks, [exchange |-> exchange_name,
                                    instrument_id |-> instrument_id,
                                    price |-> price, timestamp |-> nops + 1])
        /\ UNCHANGED <<disk, consumers>>

\* ArbitrageDetector.detect_opportunity(symbol) called with its own signature
DetectOpportunity(symbol) ==
    /\ nops < MaxOps
    /\ sims' = DetectTouches(sims, price_state, price_keys, symbol)
    /\ last' = [op |-> "detect_opportunity", venue |-> "", symbol |-> symbol,
                side |-> "", amount |-> 0, price |-> 0, err |-> "none",
                raised |-> "none",
                ret |-> detect_opportunity(sims, price_state, price_keys, symbol)]
    /\ pre' = sims
    /\ pre_tracker' = position_tracker
    /\ nops' = nops + 1
    /\ UNCHANGED <<price_state, price_keys, position_tracker, disk, ticks, consumers>>

\* SimulatedExchange.place_order on one venue's simulator; the snapshot is
\* written when the call does not raise
PlaceOrder(v, symbol, side, amount, price, bound) ==
    LET r == place_order(sims[v], symbol, side, amount, price)
    IN  /\ nops < bound
        /\ sims' = [sims EXCEPT ![v] = r.sim]
        /\ disk' = [disk EXCEPT ![v] = IF r.err = "none"
                                       THEN save_persistent_data(r.sim, @) ELSE @]
        /\ last' = [op |-> "place_order", venue |-> v, symbol |-> symbol,
                    side |-> side, amount |-> amount, price |-> price,
                    err |-> r.err, raised |-> r.err, ret |-> << >>]
        /\ pre' = sims
        /\ pre_tracker' = position_tracker
        /\ nops' = nops + 1
        /\ UNCHANGED <<price_state, price_keys, position_tracker, ticks, consumers>>

\* SimulatedExchange.close_position on one venue's simulator; the snapshot is
\* written when the call does not raise
ClosePosition(v, symbol, side, amount, price, bound) ==
    LET r == close_position(sims[v], symbol, side, amount, price)
    IN  /\ nops < bound
        /\ sims' = [sims EXCEPT ![v] = r.sim]
        /\ disk' = [disk EXCEPT ![v] = IF r.err = "none"
                                       THEN save_persistent_data(r.sim, @) ELSE @]
        /\ last' = [op |-> "close_position", venue |-> v, symbol |-> symbol,
                    side |-> side, amount |-> amount, price |-> price,
                    err |-> r.err, raised |-> r.err,
                    ret |-> IF r.err = "none" THEN <<r.pnl, r.entry_price>> ELSE << >>]
        /\ pre' = sims
        /\ pre_tracker' = position_tracker
        /\ nops' = nops + 1
        /\ UNCHANGED <<price_state, price_keys, position_tracker, ticks, consumers>>

\* SimulatedExchange.hard_reset on one venue's simulator, then the snapshot
HardReset(v, initial_funds, bound) ==
    LET sim == hard_reset(sims[v], initial_funds)
    IN  /\ nops < bound
        /\ sims' = [sims EXCEPT ![v] = sim]
        /\ disk' = [disk EXCEPT ![v] = save_persistent_data(sim, @)]
        /\ last' = [op |-> "hard_reset", venue |-> v, symbol |-> "", side |-> "",
                    amount |-> initial_funds, price |-> 0, err |-> "none",
                    raised |-> "none", ret |-> << >>]
        /\ pre' = sims
        /\ pre_tracker' = position_tracker
        /\ nops' = nops + 1
        /\ UNCHANGED <<price_state, price_keys, position_tracker, ticks, consumers>>

\* the process ends and a simulator is constructed again for the venue, with
\* the same fee_rate and persist and some initial_funds
Restart(v, initial_funds, bound) ==
    LET r == SimulatedExchange(initial_funds, sims[v].fee_rate, sims[v].persist,
                               disk[v])
    IN  /\ nops < bound
        /\ sims' = [sims EXCEPT ![v] = r.sim]
        /\ disk' = [disk EXCEPT ![v] = r.file]
        /\ last' = [op |-> "restart", venue |-> v, symbol |-> "", side |-> "",
                    amount |-> initial_funds, price |-> 0, err |-> "none",
                    raised |-> "none", ret |-> << >>]
        /\ pre' = sims
        /\ pre_tracker' = position_tracker
        /\ nops' = nops + 1
        /\ UNCHANGED <<price_state, price_keys, position_tracker, ticks, consumers>>

\* the snapshots after a coordinator call: a simulator saves when its
\* place_order or close_position did not raise, which is when its state changed
SaveChanged(before, after, files) ==
    [v \in DOMAIN files |-> IF after[v] # before[v]
                      THEN save_persistent_data(after[v], files[v]) ELSE files[v]]

\* the open branch of the coordinator's loop: position =
\* self._execute_arbitrage(opportunity); self._save_position(position).  The
\* exception _execute_arbitrage raises again skips _save_position
ExecuteArbitrage(opportunity, bound) ==
    LET r == execute_arbitrage(sims, opportunity)
    IN  /\ nops < bound
        /\ sims' = r.sims
        /\ disk' = SaveChanged(sims, r.sims, disk)
        /\ position_tracker' = IF r.err = "none"
                               THEN save_position(position_tracker, r.position)
                               ELSE position_tracker
        /\ last' = [op |-> "execute_arbitrage", venue |-> "",
                    symbol |-> opportunity.symbol, side |-> "", amount |-> 0,
                    price |-> 0, err |-> r.err, raised |-> r.err,
                    ret |-> [opportunity |-> opportunity, calls |-> r.calls]]
        /\ pre' = sims
        /\ pre_tracker' = position_tracker
        /\ nops' = nops + 1
        /\ UNCHANGED <<price_state, price_keys, ticks, consumers>>

\* the close branch of the coordinator's loop: self._close_positions(
\* opportunity), which returns None whatever was raised inside
ClosePositions(opportunity, bound) ==
    LET r == close_positions(sims, position_tracker, opportunity)
    IN  /\ nops < bound
        /\ sims' = r.sims
        /\ disk' = SaveChanged(sims, r.sims, disk)
        /\ position_tracker' = r.tracker
        /\ last' = [op |-> "close_positions", venue |-> "",
                    symbol |-> opportunity.symbol, side |-> "", amount |-> 0,
                    price |-> 0, err |-> r.err,
                    raised |-> IF ExceptException(r.err) THEN "none" ELSE r.err,
                    ret |-> [opportunity |-> opportunity, calls |-> r.calls]]
        /\ pre' = sims
        /\ pre_tracker' = position_tracker
        /\ nops' = nops + 1
        /\ UNCHANGED <<price_state, price_keys, ticks, consumers>>

\* the process ends: main.py runs nothing after its loop and MessageProcessor
\* has no method that closes the tracked pairs
Shutdown(bound) ==
    /\ nops < bound
    /\ last' = [op |-> "shutdown", venue |-> "", symbol |-> "", side |-> "",
                amount |-> 0, price |-> 0, err |-> "none", raised |-> "none",
                ret |-> << >>]
    /\ pre' = sims
    /\ pre_tracker' = position_tracker
    /\ nops' = nops + 1
    /\ UNCHANGED <<sims, disk, position_tracker, price_state, price_keys, ticks,
                   consumers>>

\* the channel yields the next delivery to the consumer's loop or callback
Deliver(c, body) ==
    LET k == consumers[c]
    IN  /\ k.pc = "idle"
        /\ k.tag < MaxDeliveries
        /\ consumers' = [consumers EXCEPT ![c] =
               [pc |-> "received", tag |-> k.tag + 1, body |-> body,
                log |-> Append(k.log, Event(k.tag + 1, "deliver", FALSE))]]
        /\ UNCHANGED <<sims, price_state, price_keys, position_tracker, last, pre,
                       nops, disk, ticks, pre_tracker>>

\* the handler decodes the body and calls the processing callback, unless the
\* decoding raises
CallCallback(c) ==
    LET k == consumers[c]
    IN  /\ k.pc = "received"
        /\ consumers' = [consumers EXCEPT ![c] =
               IF BeforeCallbackRaises(c, k.body)
               THEN [k EXCEPT !.pc = "raised"]
               ELSE [k EXCEPT !.pc = "in_callback",
                              !.log = Append(@, Event(k.tag, "call", FALSE))]]
        /\ UNCHANGED <<sims, price_state, price_keys, position_tracker, last, pre,
                       nops, disk, ticks, pre_tracker>>

\* the callback returns
CallbackReturns(c) ==
    LET k == consumers[c]
    IN  /\ k.pc = "in_callback"
        /\ consumers' = [consumers EXCEPT ![c] =
               [k EXCEPT !.pc = "returned",
                         !.log = Append(@, Event(k.tag, "return", FALSE))]]
        /\ UNCHANGED <<sims, price_state, price_keys, position_tracker, last, pre,
                       nops, disk, ticks, pre_tracker>>

\* the callback raises an Exception
CallbackRaises(c) ==
    LET k == consumers[c]
    IN  /\ k.pc = "in_callback"
        /\ consumers' = [consumers EXCEPT ![c] =
               [k EXCEPT !.pc = "raised",
                         !.log = Append(@, Event(k.tag, "raise", FALSE))]]
        /\ UNCHANGED <<sims, price_state, price_keys, position_tracker, last, pre,
                       nops, disk, ticks, pre_tracker>>

\* basic_ack after the try block ran through, basic_nack(requeue=False) in
\* the except clause; the handler is then ready for the next delivery
Acknowledge(c) ==
    LET k == consumers[c]
        a == Acknowledgement(k.pc)
    IN  /\ k.pc \in {"returned", "raised"}
        /\ consumers' = [consumers EXCEPT ![c] =
               [k EXCEPT !.pc = "idle",
                         !.log = Append(@, Event(k.tag, a.ev, a.requeue))]]
        /\ UNCHANGED <<sims, price_state, price_keys, position_tracker, last, pre,
                       nops, disk, ticks, pre_tracker>>

\* The program: ticks from every venue, the detector asked for the symbol, and
\* orders of one unit at 1000 placed on the venues' simulators
TickSymbol == "BTC/USD"

Next ==
    \/ \E v \in Venues, i \in InstrumentIds, p \in Prices : ProcessMessage(v, i, p)
    \/ DetectOpportunity(TickSymbol)
    \/ \E v \in Venues, sd \in Sides : PlaceOrder(v, TickSymbol, sd, 1, 1000, MaxOps)

Spec == Init /\ [][Next]_vars

\* One persistent simulator driven through its own interface, constructed
\* with the default fee rate or with none
SimVenue == "A"
SimPrices == {1000, 1010}
PositionSides == {"long", "short"}
FeeRates == {0, FeeRateNum}
ResetFunds == {0, SimFunds}

InitSim == \E f \in FeeRates : InitWith(SimFunds, f, TRUE)

NextSim ==
    \/ \E s \in Symbols, sd \in Sides, a \in Amounts, p \in SimPrices :
           PlaceOrder(SimVenue, s, sd, a, p, MaxSimOps)
    \/ \E s \in Symbols, sd \in PositionSides, a \in Amounts, p \in SimPrices :
           ClosePosition(SimVenue, s, sd, a, p, MaxSimOps)
    \/ \E f \in ResetFunds : HardReset(SimVenue, f, MaxSimOps)
    \/ \E f \in ResetFunds : Restart(SimVenue, f, MaxSimOps)

SpecSim == InitSim /\ [][NextSim]_vars

\* One simulator whose funds just cover one unit, trading at prices more than
\* 1/leverage apart, so that a close can cost more than the margin it releases
LossPrices == {1000, 1100}
LossAmounts == {0, 1}

InitLoss == InitWith(LossFunds, FeeRateNum, FALSE)

NextLoss ==
    \/ \E sd \in Sides, a \in LossAmounts, p \in LossPrices :
           PlaceOrder(SimVenue, TickSymbol, sd, a, p, MaxLossOps)
    \/ \E sd \in PositionSides, a \in LossAmounts, p \in LossPrices :
           ClosePosition(SimVenue, TickSymbol, sd, a, p, MaxLossOps)

SpecLoss == InitLoss /\ [][NextLoss]_vars

\* The two consumers, each handed deliveries by its channel, with a callback
\* that returns or raises
NextConsumer ==
    \/ \E c \in Consumers, body \in Bodies : Deliver(c, body)
    \/ \E c \in Consumers : CallCallback(c)
    \/ \E c \in Consumers : CallbackReturns(c)
    \/ \E c \in Consumers : CallbackRaises(c)
    \/ \E c \in Consumers : Acknowledge(c)

SpecConsumer == Init /\ [][NextConsumer]_vars

\* The coordinator's two branches driven with opportunities for the symbol:
\* opens at buy prices that divide the quote amount, closes as the detector
\* builds them (no pair_key) and as _close_positions reads them (with one),
\* next to ticks, the detector and the end of the process
CoordBuyPrices == {50, 100}
CoordSellPrice == 100
CoordTickPrices == {100, 101}
CloseAmounts == {1, 2}

OpenAt(symbol, b, s, buy_price, sell_price) ==
    [type |-> "open", symbol |-> symbol,
     buy_exchange |-> b, buy_price |-> buy_price,
     sell_exchange |-> s, sell_price |-> sell_price,
     spread |-> <<(sell_price - buy_price) * 100, buy_price>>]

CloseAt(symbol, b, s, buy_price, sell_price, amount) ==
    [type |-> "close", symbol |-> symbol,
     buy_exchange |-> b, buy_price |-> buy_price,
     sell_exchange |-> s, sell_price |-> sell_price, amount |-> amount]

WithPairKey(opportunity) ==
    [k \in DOMAIN opportunity \cup {"pair_key"} |->
        IF k = "pair_key"
        THEN PairKey(opportunity.buy_exchange, opportunity.sell_exchange)
        ELSE opportunity[k]]

CloseInputs ==
    LET plain == {CloseAt(TickSymbol, b, s, CoordSellPrice, CoordSellPrice, a) :
                     b \in Venues, s \in Venues, a \in CloseAmounts}
    IN  {o \in plain : o.buy_exchange # o.sell_exchange}
          \cup {WithPairKey(o) : o \in {x \in plain : x.buy_exchange # x.sell_exchange}}

OpenInputs ==
    LET all == {OpenAt(TickSymbol, b, s, p, CoordSellPrice) :
                   b \in Venues, s \in Venues, p \in CoordBuyPrices}
    IN  {o \in all : o.buy_exchange # o.sell_exchange}

InitCoord == InitWith(CoordFunds, FeeRateNum, FALSE)

NextCoord ==
    \/ \E o \in OpenInputs : ExecuteArbitrage(o, MaxCoordOps)
    \/ \E o \in CloseInputs : ClosePositions(o, MaxCoordOps)
    \/ \E v \in Venues, p \in CoordTickPrices :
           nops < MaxCoordOps /\ ProcessMessage(v, "BTC-USD", p)
    \/ nops < MaxCoordOps /\ DetectOpportunity(TickSymbol)
    \/ Shutdown(MaxCoordOps)

SpecCoord == InitCoord /\ [][NextCoord]_vars

\* The coordinator's loop over the list the detector returns, on the three
\* venues main.py builds

ThreeVenues == {"A", "B", "C"}
ThreePrices == {50, 100, 200}
MaxThreeOps == 4

\* one call of the loop together with the quantity its slot held when it was
\* made
HeldCall(call, held) == [call |-> call, held |-> held]

\* the calls of one _execute_arbitrage or _close_positions with the quantities
\* before them: the long of the buy venue for the first, the short of the sell
\* venue for the second (the buy venue differs from the sell venue)
CallsHeld(ss, opportunity, calls) ==
    [k \in 1 .. Len(calls) |->
        HeldCall(calls[k],
                 IF k = 1
                 THEN PosGet(ss[opportunity.buy_exchange], opportunity.symbol, "long")
                 ELSE PosGet(ss[opportunity.sell_exchange], opportunity.symbol, "short"))]

RECURSIVE run_opportunities(_, _, _, _, _)
\* "for opportunity in opportunities": an open goes to _execute_arbitrage and
\* _save_position, a close to _close_positions; the exception
\* _execute_arbitrage raises again leaves the loop, the ones of
\* _close_positions are swallowed there.  [err, sims, tracker, calls]
run_opportunities(ss, tracker, opportunities, i, calls) ==
    IF i > Len(opportunities)
    THEN [err |-> "none", sims |-> ss, tracker |-> tracker, calls |-> calls]
    ELSE
      LET o == opportunities[i]
      IN  IF o.type = "open"
          THEN LET r == execute_arbitrage(ss, o)
                   c == calls \o CallsHeld(ss, o, r.calls)
               IN  IF r.err # "none"
                   THEN [err |-> r.err, sims |-> r.sims, tracker |-> tracker,
                         calls |-> c]
                   ELSE run_opportunities(r.sims, save_position(tracker, r.position),
                                          opportunities, i + 1, c)
          ELSE LET r == close_positions(ss, tracker, o)
               IN  run_opportunities(r.sims, r.tracker, opportunities, i + 1,
                                     calls \o CallsHeld(ss, o, r.calls))

\* opportunities = detect_opportunity(symbol), the detector called with the
\* one argument it declares, then the loop of process_message over the list
RunOpportunities(symbol, bound) ==
    LET opportunities == detect_opportunity(sims, price_state, price_keys, symbol)
        touched == DetectTouches(sims, price_state, price_keys, symbol)
        r == run_opportunities(touched, position_tracker, opportunities, 1, << >>)
    IN  /\ nops < bound
        /\ sims' = r.sims
        /\ disk' = SaveChanged(touched, r.sims, disk)
        /\ position_tracker' = r.tracker
        /\ last' = [op |-> "run_opportunities", venue |-> "", symbol |-> symbol,
                    side |-> "", amount |-> 0, price |-> 0, err |-> r.err,
                    raised |-> "none",
                    ret |-> [opportunities |-> opportunities, calls |-> r.calls]]
        /\ pre' = sims
        /\ pre_tracker' = position_tracker
        /\ nops' = nops + 1
        /\ UNCHANGED <<price_state, price_keys, ticks, consumers>>

InitThree ==
    /\ sims = [v \in ThreeVenues |->
                 SimulatedExchange(CoordFunds, FeeRateNum, FALSE, NoFile).sim]
    /\ disk = [v \in ThreeVenues |->
                 SimulatedExchange(CoordFunds, FeeRateNum, FALSE, NoFile).file]
    /\ price_state = [v \in ThreeVenues |-> [s \in HistoryKeys |-> << >>]]
    /\ price_keys = << >>
    /\ position_tracker = << >>
    /\ ticks = << >>
    /\ consumers = [c \in Consumers |-> NewConsumer]
    /\ last = NoCall
    /\ pre = sims
    /\ pre_tracker = position_tracker
    /\ nops = 0

NextThree ==
    \/ \E v \in ThreeVenues, p \in ThreePrices :
           nops < MaxThreeOps /\ ProcessMessage(v, "BTC-USD", p)
    \/ RunOpportunities(TickSymbol, MaxThreeOps)

SpecThree == InitThree /\ [][NextThree]_vars

\* The detector fed ticks that name the instrument in either form and asked
\* for the symbol, over simulators that hold nothing or a long and a short
InitDet ==
    \E held \in {{}, Sides} :
        InitHolding(SimFunds, FeeRateNum, FALSE, TickSymbol, [v \in Venues |-> held])

NextDet ==
    \/ \E v \in Venues, i \in TickIds, p \in SimPrices : ProcessMessage(v, i, p)
    \/ DetectOpportunity(TickSymbol)

SpecDet == InitDet /\ [][NextDet]_vars

---------------------------------------------------------------------------
\* Vocabulary of the properties

Long(ss, v, symbol) == PosGet(ss[v], symbol, "long")
Short(ss, v, symbol) == PosGet(ss[v], symbol, "short")

Priced(v, symbol) == Len(price_state[v][symbol]) > 0
Now(v, symbol) == Latest(price_state, v, symbol)

VenuePairs == {pr \in Venues \X Venues : pr[1] # pr[2]}

\* the long on b and the short on s are held: the pair the detector's loops
\* treat as open (lines 56-57) and as closable (lines 75-76)
Held(ss, b, s, symbol) == Long(ss, b, symbol) > 0 /\ Short(ss, s, symbol) > 0

Emits(ret, type, b, s) ==
    \E i \in 1 .. Len(ret) :
        /\ ret[i].type = type
        /\ ret[i].buy_exchange = b
        /\ ret[i].sell_exchange = s

\* the spec's cost of the two legs of an open: base_amount = base_trade_amount *
\* leverage / buy_price, margin price * base_amount / leverage, fee
\* base_amount * price * fee_rate (scaled money; the sell leg's by cross
\* multiplication with the buy price)
OpenCostBuy == Scaled(BaseTradeAmount) + BaseTradeAmount * Leverage
BuyAffordable(ss, b) == ss[b].real_balance["USD"] >= OpenCostBuy
SellAffordable(ss, s, buy_price, sell_price) ==
    ss[s].real_balance["USD"] * buy_price >= OpenCostBuy * sell_price

\* the spec's alignment test: |b - s| / s * 100 <= alignment_threshold_pct
AlignedPct(buy_price, sell_price) ==
    Abs(buy_price - sell_price) * 100 * AlignDen <= AlignNum * sell_price

\* the spec's cost of an order: price*amount/leverage + amount*price*fee_rate
ClaimedCost(sim, amount, price) ==
    (price * amount * FeeRateDen) \div sim.leverage + amount * price * sim.fee_rate

AfterTick == last.op = "process_message"
AfterDetect == last.op = "detect_opportunity"
AfterPlace == last.op = "place_order"

---------------------------------------------------------------------------
\* C1: while the long on b and the short on s of a pair are held, the
\* detector emits no further Open for the direction b-s, and a tick places no
\* order on any venue.
C1_NoReopenSameDirection ==
    /\ AfterDetect =>
          \A pr \in VenuePairs :
              Held(pre, pr[1], pr[2], last.symbol)
                  => ~Emits(last.ret, "open", pr[1], pr[2])
    /\ AfterTick => \A v \in Venues : sims[v].orders = pre[v].orders

\* the detector is asked while a pair is held and its spread is at the threshold
C1_Witness ==
    /\ AfterDetect
    /\ \E pr \in VenuePairs :
          /\ Held(pre, pr[1], pr[2], last.symbol)
          /\ Priced(pr[1], last.symbol) /\ Priced(pr[2], last.symbol)
          /\ SpreadAtLeastThreshold(Now(pr[1], last.symbol), Now(pr[2], last.symbol))

\* C2: while the pair b-s is held, no Open for the reverse direction s-b is
\* emitted.
C2_NoReverseOpen ==
    AfterDetect =>
        \A pr \in VenuePairs :
            Held(pre, pr[1], pr[2], last.symbol)
                => ~Emits(last.ret, "open", pr[2], pr[1])

\* C3: with no open position on any venue, after a tick that leaves two
\* venues b and s priced the pair is opened (long on b, short on s) exactly
\* when the spread on the buy price reaches the threshold, and when neither
\* direction reaches it the simulators are unchanged.
C3_OpensOnThreshold ==
    (/\ AfterTick
     /\ \A v \in Venues : Priced(v, last.symbol)
     /\ \A v \in Venues : Long(pre, v, last.symbol) = 0 /\ Short(pre, v, last.symbol) = 0)
    => /\ \A pr \in VenuePairs :
            Held(sims, pr[1], pr[2], last.symbol)
                <=> SpreadAtLeastThreshold(Now(pr[1], last.symbol), Now(pr[2], last.symbol))
       /\ (\A pr \in VenuePairs :
              ~SpreadAtLeastThreshold(Now(pr[1], last.symbol), Now(pr[2], last.symbol)))
            => sims = pre

\* C4: for a held pair b-s the detector emits a Close exactly when
\* |latest[b] - latest[s]| / latest[s] * 100 <= alignment_threshold_pct.
C4_CloseOnAlignmentPct ==
    AfterDetect =>
        \A pr \in VenuePairs :
            (/\ Held(pre, pr[1], pr[2], last.symbol)
             /\ Priced(pr[1], last.symbol) /\ Priced(pr[2], last.symbol))
            => (Emits(last.ret, "close", pr[1], pr[2])
                  <=> AlignedPct(Now(pr[1], last.symbol), Now(pr[2], last.symbol)))

\* C5: when process_message returns for a tick after which the prices of a
\* held pair are aligned within alignment_threshold_pct, the long on b and
\* the short on s have been closed.
C5_ClosedWhenAligned ==
    AfterTick =>
        \A pr \in VenuePairs :
            (/\ Priced(pr[1], last.symbol) /\ Priced(pr[2], last.symbol)
             /\ Held(pre, pr[1], pr[2], last.symbol)
             /\ AlignedPct(Now(pr[1], last.symbol), Now(pr[2], last.symbol)))
            => /\ ~Held(sims, pr[1], pr[2], last.symbol)
               /\ position_tracker = << >>

C9_PlaceOrderEffect ==
    (AfterPlace /\ last.err = "none") =>
        LET v   == last.venue
            sym == last.symbol
            q   == Quote(sym)
            qty == IF last.side = "buy" THEN "long" ELSE "short"
            oth == IF last.side = "buy" THEN "short" ELSE "long"
            ep  == IF last.side = "buy" THEN "long_entry_price" ELSE "short_entry_price"
            oep == IF last.side = "buy" THEN "short_entry_price" ELSE "long_entry_price"
        IN  /\ sims[v].real_balance[q]
                   = pre[v].real_balance[q] - ClaimedCost(pre[last.venue], last.amount, last.price)
            /\ \A a \in Assets \ {q} : sims[v].real_balance[a] = pre[v].real_balance[a]
            /\ sims[v].loaned_balance = pre[v].loaned_balance
            /\ PosGet(sims[v], sym, qty) = PosGet(pre[v], sym, qty) + last.amount
            /\ PosGet(sims[v], sym, oth) = PosGet(pre[v], sym, oth)
            /\ PosGet(sims[v], sym, oep) = PosGet(pre[v], sym, oep)
            /\ PosGet(sims[v], sym, ep)
                   = IF PosGet(pre[v], sym, ep) = None THEN last.price
                     ELSE PosGet(pre[v], sym, ep)
            /\ \A s2 \in Symbols \ {sym} :
                   /\ (s2 \in DOMAIN sims[v].positions) = (s2 \in DOMAIN pre[v].positions)
                   /\ s2 \in DOMAIN pre[v].positions
                         => sims[v].positions[s2] = pre[v].positions[s2]
            /\ Len(sims[v].orders) = Len(pre[v].orders) + 1
            /\ SubSeq(sims[v].orders, 1, Len(pre[v].orders)) = pre[v].orders
            /\ LET o == sims[v].orders[Len(sims[v].orders)]
               IN  /\ o.symbol = sym /\ o.side = last.side
                   /\ o.amount = last.amount /\ o.price = last.price
            /\ \A w \in Venues \ {v} : sims[w] = pre[w]

\* a sell of two units succeeded on a simulator that already held a position
C9_Witness ==
    /\ AfterPlace /\ last.err = "none"
    /\ last.side = "sell" /\ last.amount = 2
    /\ pre[last.venue].positions # << >>

\* C10: place_order with real_balance[quote] < margin_cost + fee fails with
\* InsufficientBalance and leaves balances, positions and orders as they were.
C10_PlaceOrderInsufficient ==
    (/\ AfterPlace
     /\ pre[last.venue].real_balance[Quote(last.symbol)]
            < ClaimedCost(pre[last.venue], last.amount, last.price))
    => /\ last.err = "InsufficientBalance"
       /\ sims = pre

\* an order was refused after earlier orders had used up the balance
C10_Witness ==
    /\ AfterPlace /\ last.err = "InsufficientBalance"
    /\ pre[last.venue].orders # << >>

AfterClose == last.op = "close_position"

\* the spec's preconditions of close_position
ClosePreconditions(sim, symbol, side, amount) ==
    /\ symbol \in DOMAIN sim.positions
    /\ sim.positions[symbol][side] >= amount
    /\ sim.positions[symbol][IF side = "long" THEN "long_entry_price"
                             ELSE "short_entry_price"] # None

\* C11: close_position succeeds exactly when the symbol has a position entry,
\* the side's quantity is at least amount and the side's entry price is set;
\* otherwise it fails and leaves the simulator and its snapshot as they were.
C11_ClosePositionPreconditions ==
    AfterClose =>
        LET ok == ClosePreconditions(pre[last.venue], last.symbol, last.side,
                                     last.amount)
        IN  /\ (last.err = "none") <=> ok
            /\ ~ok => /\ sims = pre
                      /\ disk[last.venue] = <<Snapshot(pre[last.venue])>>

\* a close was refused for asking more than the positive quantity held
C11_Witness ==
    /\ AfterClose /\ last.err = "InsufficientPositionSize"
    /\ PosGet(pre[last.venue], last.symbol, last.side) > 0

\* the entry price of the slot closed by the last call, before the call
EntryBefore ==
    PosGet(pre[last.venue], last.symbol,
           IF last.side = "long" THEN "long_entry_price" ELSE "short_entry_price")

\* the spec's pnl law (scaled money)
ClaimedPnl(sim, side, entry_price, amount, close_price) ==
    IF side = "long"
    THEN Scaled((close_price - entry_price) * amount)
             - sim.fee_rate * amount * close_price
    ELSE Scaled((entry_price - close_price) * amount)
             - sim.fee_rate * amount * close_price

\* C12: a successful close_position returns the pnl of the spec's law for its
\* side, computed from the slot's entry price before the call, and
\* real_balance[quote] grows by exactly pnl + entry_price * amount / leverage.
C12_ClosePnlLaw ==
    (AfterClose /\ last.err = "none") =>
        LET sim == pre[last.venue]
            q   == Quote(last.symbol)
            pnl == ClaimedPnl(sim, last.side, EntryBefore, last.amount, last.price)
        IN  /\ last.ret[1] = pnl
            /\ last.ret[2] = EntryBefore
            /\ sims[last.venue].real_balance[q]
                   = sim.real_balance[q] + pnl
                     + (EntryBefore * last.amount * FeeRateDen) \div sim.leverage

\* a short was closed, with a fee charged, at a price other than its entry price
C12_Witness ==
    /\ AfterClose /\ last.err = "none"
    /\ last.side = "short" /\ last.amount > 0
    /\ last.price # EntryBefore
    /\ pre[last.venue].fee_rate > 0

RECURSIVE LockedMargin(_, _)
\* the margin debited by the place_order records of a sequence of orders
LockedMargin(sim, orders) ==
    IF orders = << >> THEN 0
    ELSE (Head(orders).price * Head(orders).amount * FeeRateDen) \div sim.leverage
             + LockedMargin(sim, Tail(orders))

RECURSIVE TotalAmount(_)
TotalAmount(orders) ==
    IF orders = << >> THEN 0 ELSE Head(orders).amount + TotalAmount(Tail(orders))

\* the venue's orders are place_order records, of positive amounts, of one
\* (symbol, side) slot, which built it from zero, followed by the close of its
\* whole quantity
SlotBuiltThenClosed(v) ==
    LET os == sims[v].orders
        n  == Len(os)
        opens == SubSeq(os, 1, n - 1)
    IN  /\ AfterClose /\ last.err = "none" /\ last.venue = v
        /\ n >= 2
        /\ \A i \in 1 .. n - 1 :
              /\ "fee" \in DOMAIN os[i]
              /\ os[i].amount > 0
              /\ os[i].symbol = last.symbol
              /\ os[i].side = (IF last.side = "long" THEN "buy" ELSE "sell")
        /\ TotalAmount(opens) = last.amount
        /\ last.amount > 0

\* C13: with fee_rate = 0, a slot built from zero by place_order calls and
\* closed in whole gets back on the close exactly the margin its orders
\* locked: real_balance[quote] changes over the sequence by the returned pnl.
C13_MarginReleasedIsMarginLocked ==
    \A v \in Venues :
        (SlotBuiltThenClosed(v) /\ sims[v].fee_rate = 0) =>
            LET q == Quote(last.symbol)
                opens == SubSeq(sims[v].orders, 1, Len(sims[v].orders) - 1)
            IN  sims[v].real_balance[q] - pre[v].real_balance[q]
                    = last.ret[1] + LockedMargin(sims[v], opens)

\* the slot (quantity and entry price fields) the last order or close acted on
LastQty == IF last.side \in {"buy", "long"} THEN "long" ELSE "short"
LastEntry ==
    IF last.side \in {"buy", "long"} THEN "long_entry_price" ELSE "short_entry_price"

\* C14: an order on a slot of positive quantity and a partial close leave the
\* slot's entry price unchanged, and an order that opens a slot from zero
\* quantity makes its own price the entry price.
C14_EntryPriceIsOpeningPrice ==
    LET v   == last.venue
        was == PosGet(pre[v], last.symbol, LastEntry)
        now == PosGet(sims[v], last.symbol, LastEntry)
    IN  /\ (AfterPlace /\ last.err = "none"
              /\ PosGet(pre[v], last.symbol, LastQty) > 0) => now = was
        /\ (AfterClose /\ last.err = "none"
              /\ PosGet(sims[v], last.symbol, LastQty) > 0) => now = was
        /\ (AfterPlace /\ last.err = "none" /\ last.amount > 0
              /\ PosGet(pre[v], last.symbol, LastQty) = 0) => now = last.price

\* C15: for every symbol of every simulator, the long entry price is null
\* exactly when the long quantity is 0, and likewise for the short side.
C15_EntryPriceCoupling ==
    \A v \in Venues : \A s \in DOMAIN sims[v].positions :
        /\ (sims[v].positions[s].long_entry_price = None)
               <=> (sims[v].positions[s].long = 0)
        /\ (sims[v].positions[s].short_entry_price = None)
               <=> (sims[v].positions[s].short = 0)

\* C16: the long and the short quantity of every position of every simulator
\* are never negative.
C16_QuantitiesNonNegative ==
    \A v \in Venues : \A s \in DOMAIN sims[v].positions :
        sims[v].positions[s].long >= 0 /\ sims[v].positions[s].short >= 0

\* a close has just taken the whole of a positive quantity
C16_Witness ==
    /\ AfterClose /\ last.err = "none" /\ last.amount > 0
    /\ PosGet(sims[last.venue], last.symbol, LastQty) = 0

\* C17: right after a successful place_order the quote balance of the
\* simulator is not negative.
C17_BalanceNonNegativeAfterOrder ==
    (AfterPlace /\ last.err = "none") =>
        sims[last.venue].real_balance[Quote(last.symbol)] >= 0

\* an order of positive amount succeeded and used up the whole balance
C17_Witness ==
    /\ AfterPlace /\ last.err = "none" /\ last.amount > 0
    /\ sims[last.venue].real_balance[Quote(last.symbol)] = 0

\* an order was refused because a losing close had left the balance negative
RefusedAtNegativeBalance ==
    /\ AfterPlace /\ last.err = "InsufficientBalance" /\ last.amount = 0
    /\ pre[last.venue].real_balance[Quote(last.symbol)] < 0

AfterReset == last.op = "hard_reset"
AfterRestart == last.op = "restart"

\* the attributes a snapshot holds
SameState(s1, s2) ==
    /\ s1.real_balance = s2.real_balance
    /\ s1.loaned_balance = s2.loaned_balance
    /\ s1.positions = s2.positions
    /\ s1.orders = s2.orders

\* C18: with persist = true the snapshot on disk is the in-memory state after
\* every completed place_order, close_position and hard_reset; a simulator
\* constructed afterwards for the venue has the state of the last write
\* whatever initial_funds it is given; and loading what was saved from any
\* reachable state gives that state back.
C18_SnapshotRoundTrip ==
    LET v == last.venue
    IN  /\ ((AfterPlace \/ AfterClose \/ AfterReset) /\ last.err = "none"
               /\ sims[v].persist)
              => disk[v] = <<Snapshot(sims[v])>>
        /\ (AfterRestart /\ pre[v].persist)
              => /\ SameState(sims[v], pre[v])
                 /\ disk[v] = <<Snapshot(sims[v])>>
        /\ \A w \in Venues :
              sims[w].persist =>
                 \A f \in ResetFunds :
                    SameState(SimulatedExchange(f, sims[w].fee_rate, TRUE,
                                  save_persistent_data(sims[w], NoFile)).sim,
                              sims[w])

\* a simulator holding orders and a position with a null entry price was
\* constructed again with funds other than its balance
C18_Witness ==
    /\ AfterRestart /\ pre[last.venue].persist
    /\ pre[last.venue].orders # << >>
    /\ pre[last.venue].real_balance["USD"] # Scaled(last.amount)
    /\ \E s \in DOMAIN pre[last.venue].positions :
           /\ pre[last.venue].positions[s].long > 0
           /\ pre[last.venue].positions[s].short_entry_price = None

\* C19: hard_reset(initial_funds) leaves real_balance equal to initial_funds,
\* every loaned balance zero, no position and no order, writes that state to
\* the snapshot of a persistent simulator and keeps fee_rate and leverage.
C19_HardReset ==
    AfterReset =>
        LET v == last.venue
        IN  /\ sims[v].real_balance
                   = [a \in Assets |-> IF a = "USD" THEN Scaled(last.amount) ELSE 0]
            /\ \A a \in Assets : sims[v].loaned_balance[a] = 0
            /\ DOMAIN sims[v].positions = {}
            /\ Len(sims[v].orders) = 0
            /\ sims[v].persist => disk[v] = <<Snapshot(sims[v])>>
            /\ sims[v].fee_rate = pre[v].fee_rate
            /\ sims[v].leverage = pre[v].leverage
            /\ sims[v].persist = pre[v].persist

\* a simulator with orders, a position and a different balance was reset
C19_Witness ==
    /\ AfterReset
    /\ pre[last.venue].orders # << >>
    /\ DOMAIN pre[last.venue].positions # {}
    /\ pre[last.venue].real_balance["USD"] # Scaled(last.amount)
    /\ sims[last.venue].fee_rate = 0

\* the list the detector returns for the symbol of the last tick, computed
\* from the simulators as they were when the tick arrived
TickOpportunities ==
    detect_opportunity(pre, price_state, price_keys, last.symbol)

\* C20: when the first opportunity of a tick is an Open whose buy leg the buy
\* venue cannot pay, the Close that follows it in the list is still executed:
\* the legs it names are closed when process_message returns.
C20_ContinuesAfterFailedOpen ==
    (/\ AfterTick
     /\ Len(TickOpportunities) >= 2
     /\ TickOpportunities[1].type = "open"
     /\ ~BuyAffordable(pre, TickOpportunities[1].buy_exchange)
     /\ TickOpportunities[2].type = "close")
    => ~Held(sims, TickOpportunities[2].buy_exchange,
             TickOpportunities[2].sell_exchange, last.symbol)

---------------------------------------------------------------------------
\* Errors that reach the caller of process_message

\* the errors the simulators raise: the ValueErrors of place_order and
\* close_position, named after their messages
SimulatorErrors ==
    {"InsufficientBalance", "NoSuchPosition", "InsufficientPositionSize",
     "EntryPriceMissing"}

\* C21: a tick whose processing fails with an error that is not a simulator's
\* raises that error to the caller of process_message; only the simulators'
\* errors are swallowed.
C21_NonSimulatorErrorsPropagate ==
    (AfterTick /\ last.err \notin SimulatorErrors \cup {"none"})
        => last.raised = last.err

---------------------------------------------------------------------------
\* Acknowledgements of the consumers

\* the indices of consumer c's log at which event ev of delivery tag stands
Indices(c, tag, ev) ==
    {i \in 1 .. Len(consumers[c].log) :
        consumers[c].log[i].tag = tag /\ consumers[c].log[i].ev = ev}

Outcomes(c, tag) == Indices(c, tag, "basic_ack") \cup Indices(c, tag, "basic_nack")

\* the handler has finished with delivery tag
Handled(c, tag) ==
    tag < consumers[c].tag \/ (tag = consumers[c].tag /\ consumers[c].pc = "idle")

\* C22: every delivery a consumer has finished with got exactly one
\* acknowledgement and no delivery ever gets two; an ack stands after the
\* callback's return for that delivery, a delivery whose callback did not return
\* is nacked with requeue = false; and a delivery is handed to the callback
\* only after the previous delivery's callback has come back and its
\* acknowledgement has been sent.
C22_OneAcknowledgementPerDelivery ==
    \A c \in Consumers : \A tag \in 1 .. consumers[c].tag :
        /\ Cardinality(Outcomes(c, tag)) <= 1
        /\ Handled(c, tag) => Cardinality(Outcomes(c, tag)) = 1
        /\ \A i \in Indices(c, tag, "basic_ack") :
               \E j \in Indices(c, tag, "return") : j < i
        /\ (Handled(c, tag) /\ Indices(c, tag, "return") = {})
               => Indices(c, tag, "basic_ack") = {}
        /\ \A i \in Indices(c, tag, "basic_nack") :
               /\ consumers[c].log[i].requeue = FALSE
               /\ Indices(c, tag, "return") = {}
        /\ \A i \in Indices(c, tag, "call") :
               tag > 1 => \E j \in Outcomes(c, tag - 1) : j < i

\* a consumer has acked one delivery and nacked another
C22_Witness ==
    \E c \in Consumers :
        \E t1, t2 \in 1 .. consumers[c].tag :
            /\ Indices(c, t1, "basic_ack") # {}
            /\ Indices(c, t2, "basic_nack") # {}
            /\ Indices(c, t2, "raise") # {}
            /\ consumers[c].pc = "idle"

---------------------------------------------------------------------------
\* The detector's histories

\* the two forms of a canonical symbol
Dashed(symbol) ==
    CASE symbol = "BTC/USD" -> "BTC-USD"
      [] symbol = "ETH/USD" -> "ETH-USD"
Forms(symbol) == {symbol, Dashed(symbol)}

\* the ticks venue v has been sent for the symbol, in either form, as history
\* entries in the order of their arrival
Received(v, symbol) ==
    LET mine == SelectSeq(ticks, LAMBDA t :
                    t.exchange = v /\ t.instrument_id \in Forms(symbol))
    IN  [i \in 1 .. Len(mine) |->
            [price |-> mine[i].price, timestamp |-> mine[i].timestamp]]

LastOf(seq, n) ==
    IF Len(seq) <= n THEN seq ELSE SubSeq(seq, Len(seq) - n + 1, Len(seq))

\* C24: a tick naming "BASE-QUOTE" or "BASE/QUOTE" is appended to the history
\* kept under "BASE/QUOTE" for its venue, the detector is asked for that
\* symbol, and no history and no position is ever keyed by another form.
C24_CanonicalSymbol ==
    /\ \A v \in Venues : \A k \in HistoryKeys \ Symbols : price_state[v][k] = << >>
    /\ \A v \in Venues : DOMAIN sims[v].positions \subseteq Symbols
    /\ AfterTick =>
         LET t == ticks[Len(ticks)]
         IN  \E symbol \in Symbols :
                /\ t.instrument_id \in Forms(symbol)
                /\ last.symbol = symbol
                /\ price_state[t.exchange][symbol] # << >>
                /\ price_state[t.exchange][symbol][Len(price_state[t.exchange][symbol])]
                       = [price |-> t.price, timestamp |-> t.timestamp]

\* one venue's history for the symbol holds a tick that named it with a dash
\* and, after it, one that named it with a slash
C24_Witness ==
    /\ AfterTick
    /\ \E i, j \in 1 .. Len(ticks) :
          /\ i < j /\ j = Len(ticks)
          /\ ticks[i].exchange = ticks[j].exchange
          /\ ticks[i].instrument_id = "BTC-USD"
          /\ ticks[j].instrument_id = "BTC/USD"
          /\ Len(price_state[ticks[j].exchange]["BTC/USD"]) = 2
          /\ price_state[ticks[j].exchange]["BTC/USD"][1].timestamp = ticks[i].timestamp

\* C25: a venue's history for a symbol is the last history_size ticks it was
\* sent for the symbol (all of them while there are fewer), oldest first, and
\* the prices in the opportunities the detector returns are those of the last
\* tick of each venue.
C25_HistoryIsLastTicks ==
    /\ \A v \in Venues : \A symbol \in Symbols :
          price_state[v][symbol] = LastOf(Received(v, symbol), HistorySize)
    /\ AfterDetect =>
          \A i \in 1 .. Len(last.ret) :
             LET o  == last.ret[i]
                 rb == Received(o.buy_exchange, o.symbol)
                 rs == Received(o.sell_exchange, o.symbol)
             IN  /\ rb # << >> /\ rs # << >>
                 /\ o.buy_price = rb[Len(rb)].price
                 /\ o.sell_price = rs[Len(rs)].price

\* a venue has been sent more ticks than its history keeps, and the detector
\* has returned an opportunity priced at its last tick
C25_Witness ==
    /\ AfterDetect
    /\ last.ret # << >>
    /\ \E v \in Venues :
          /\ Len(Received(v, TickSymbol)) > HistorySize
          /\ Received(v, TickSymbol)[1].price # Now(v, TickSymbol)
          /\ v \in {last.ret[1].buy_exchange, last.ret[1].sell_exchange}

\* the place of a venue id in lexicographic order
VenueRank(v) == CASE v = "A" -> 1 [] v = "B" -> 2

LexBefore(o1, o2) ==
    \/ VenueRank(o1.buy_exchange) < VenueRank(o2.buy_exchange)
    \/ /\ o1.buy_exchange = o2.buy_exchange
       /\ VenueRank(o1.sell_exchange) < VenueRank(o2.sell_exchange)

\* C26: the opportunities of one kind that detect_opportunity returns stand
\* in the lexicographic order of their (buy venue, sell venue) pairs, whatever
\* the order in which the venues' ticks arrived.
C26_LexicographicPairOrder ==
    AfterDetect =>
        \A i, j \in 1 .. Len(last.ret) :
            (i < j /\ last.ret[i].type = last.ret[j].type)
                => LexBefore(last.ret[i], last.ret[j])

---------------------------------------------------------------------------
\* The coordinator's branches

AfterExecute == last.op = "execute_arbitrage"
AfterClosePositions == last.op = "close_positions"
AfterShutdown == last.op = "shutdown"

\* the amount the tracker holds for the pair b-s and the symbol, None when it
\* holds none
Registered(tracker, b, s, symbol) ==
    IF PairKey(b, s) \in DOMAIN tracker /\ symbol \in DOMAIN tracker[PairKey(b, s)]
    THEN tracker[PairKey(b, s)][symbol].amount
    ELSE None

\* what the last call took off the long of b and off the short of s
ClosedLong(b, symbol) == Long(pre, b, symbol) - Long(sims, b, symbol)
ClosedShort(s, symbol) == Short(pre, s, symbol) - Short(sims, s, symbol)

\* C6: the tracker gains or changes an entry only in an open that added a
\* quantity to the long of the buy venue and the same quantity to the short of
\* the sell venue, and the entry registers that quantity; an open in which a
\* leg was not placed leaves the tracker as it was, and no other call adds an
\* entry.
C6_TrackerEntryNeedsBothLegs ==
    /\ AfterExecute =>
         LET o == last.ret.opportunity
             q == Registered(position_tracker, o.buy_exchange, o.sell_exchange,
                             o.symbol)
         IN  /\ position_tracker # pre_tracker
                   => /\ last.err = "none"
                      /\ q # None /\ q > 0
                      /\ ClosedLong(o.buy_exchange, o.symbol) = 0 - q
                      /\ ClosedShort(o.sell_exchange, o.symbol) = 0 - q
             /\ (\/ ClosedLong(o.buy_exchange, o.symbol) >= 0
                 \/ ClosedShort(o.sell_exchange, o.symbol) >= 0)
                   => position_tracker = pre_tracker
    /\ ~AfterExecute =>
         \A pr \in VenuePairs :
            Registered(pre_tracker, pr[1], pr[2], TickSymbol) = None
               => Registered(position_tracker, pr[1], pr[2], TickSymbol) = None

\* an open whose buy leg was placed and whose sell leg was refused has left no
\* entry for its pair, while the tracker holds the entry of an earlier open
C6_Witness ==
    /\ AfterExecute
    /\ last.err # "none"
    /\ Len(last.ret.calls) = 2
    /\ ClosedLong(last.ret.opportunity.buy_exchange, TickSymbol) < 0
    /\ Registered(position_tracker, last.ret.opportunity.buy_exchange,
                  last.ret.opportunity.sell_exchange, TickSymbol) = None
    /\ Registered(position_tracker, last.ret.opportunity.sell_exchange,
                  last.ret.opportunity.buy_exchange, TickSymbol) # None

\* C23: when the process shuts down, every pair the tracker holds whose two
\* venues have a last known price has both legs closed and leaves the tracker;
\* only pairs with an unpriced leg remain.
C23_ShutdownClosesTrackedPairs ==
    AfterShutdown =>
        \A pr \in VenuePairs :
            LET a == Registered(pre_tracker, pr[1], pr[2], TickSymbol)
            IN  (a # None /\ Priced(pr[1], TickSymbol) /\ Priced(pr[2], TickSymbol))
                    => /\ Registered(position_tracker, pr[1], pr[2], TickSymbol) = None
                       /\ ClosedLong(pr[1], TickSymbol) = a
                       /\ ClosedShort(pr[2], TickSymbol) = a

\* C27: when a Close for the pair b-s is processed while the tracker holds an
\* amount for the pair and the symbol, that amount is closed on both venues,
\* whatever amount the Close carries.
C27_CloseUsesTrackerAmount ==
    AfterClosePositions =>
        LET o == last.ret.opportunity
            a == Registered(pre_tracker, o.buy_exchange, o.sell_exchange, o.symbol)
        IN  (a # None /\ a > 0)
                => /\ ClosedLong(o.buy_exchange, o.symbol) = a
                   /\ ClosedShort(o.sell_exchange, o.symbol) = a

\* C28: an Open that goes through adds one quantity q to the long of the buy
\* venue and to the short of the sell venue, with q * buy_price =
\* base_trade_amount * leverage of the buy venue, and the tracker holds q for
\* the pair and the symbol.
C28_BothLegsBaseAmount ==
    (AfterExecute /\ last.err = "none") =>
        LET o == last.ret.opportunity
            q == Long(sims, o.buy_exchange, o.symbol) - Long(pre, o.buy_exchange, o.symbol)
        IN  /\ q * o.buy_price = BaseTradeAmount * pre[o.buy_exchange].leverage
            /\ Short(sims, o.sell_exchange, o.symbol)
                   - Short(pre, o.sell_exchange, o.symbol) = q
            /\ Registered(position_tracker, o.buy_exchange, o.sell_exchange, o.symbol) = q

\* an Open bought at 50 and sold at 100 has gone through: 2 units on both legs
C28_Witness ==
    /\ AfterExecute
    /\ last.err = "none"
    /\ last.ret.opportunity.buy_price # last.ret.opportunity.sell_price
    /\ Long(sims, last.ret.opportunity.buy_exchange, TickSymbol) = 2
    /\ Registered(position_tracker, last.ret.opportunity.buy_exchange,
                  last.ret.opportunity.sell_exchange, TickSymbol) = 2

\* C29: an open calls place_order("buy") on the buy venue first and
\* place_order("sell") on the sell venue second, a close calls
\* close_position("long") on the buy venue first and close_position("short") on
\* the sell venue second; the second call is made exactly when the first did
\* not raise, and the second venue is untouched when the first call raised.
C29_BuyLegThenSellLeg ==
    /\ AfterExecute =>
         LET o == last.ret.opportunity
             c == last.ret.calls
         IN  /\ Len(c) \in {1, 2}
             /\ c[1].venue = o.buy_exchange /\ c[1].op = "place_order"
             /\ c[1].side = "buy"
             /\ (Len(c) = 2) = (c[1].err = "none")
             /\ Len(c) = 2 => /\ c[2].venue = o.sell_exchange
                              /\ c[2].op = "place_order" /\ c[2].side = "sell"
             /\ c[1].err # "none" => sims[o.sell_exchange] = pre[o.sell_exchange]
    /\ AfterClosePositions =>
         LET o == last.ret.opportunity
             c == last.ret.calls
         IN  /\ Len(c) \in {0, 1, 2}
             /\ Len(c) >= 1 => /\ c[1].venue = o.buy_exchange
                               /\ c[1].op = "close_position" /\ c[1].side = "long"
                               /\ (Len(c) = 2) = (c[1].err = "none")
             /\ Len(c) = 2 => /\ c[2].venue = o.sell_exchange
                              /\ c[2].op = "close_position" /\ c[2].side = "short"
             /\ Len(c) = 0 => sims = pre

\* an open whose buy leg went through and whose sell leg was refused, in a
\* run in which a close has gone through on both venues
C29_Witness ==
    /\ AfterExecute
    /\ Len(last.ret.calls) = 2
    /\ last.ret.calls[2].err # "none"
    /\ \E v \in Venues : \E i \in 1 .. Len(sims[v].orders) :
          sims[v].orders[i].side = "short"

\* the place of the last record of the side in a simulator's orders, 0 when
\* there is none
LastIndex(orders, symbol, side) ==
    LET at == {i \in 1 .. Len(orders) :
                  orders[i].symbol = symbol /\ orders[i].side = side}
    IN  IF at = {} THEN 0 ELSE CHOOSE i \in at : \A j \in at : j <= i

\* both legs of the pair b-s were opened after they were last closed
OpenNotClosedSince(ss, b, s, symbol) ==
    /\ LastIndex(ss[b].orders, symbol, "buy") > LastIndex(ss[b].orders, symbol, "long")
    /\ LastIndex(ss[s].orders, symbol, "sell") > LastIndex(ss[s].orders, symbol, "short")

\* C30: the coordinator calls close_position for a pair only while the tracker
\* holds the pair, the tracker holds a pair only when both its legs were
\* opened after they were last closed, and in the list the detector returns no
\* Close stands before an Open.
C30_CloseAfterOpen ==
    /\ (AfterClosePositions /\ last.ret.calls # << >>) =>
         LET o == last.ret.opportunity
             a == Registered(pre_tracker, o.buy_exchange, o.sell_exchange, o.symbol)
         IN  /\ a # None /\ a > 0
             /\ OpenNotClosedSince(pre, o.buy_exchange, o.sell_exchange, o.symbol)
    /\ \A pr \in VenuePairs :
         Registered(position_tracker, pr[1], pr[2], TickSymbol) # None
            => OpenNotClosedSince(sims, pr[1], pr[2], TickSymbol)
    /\ AfterDetect =>
         \A i, j \in 1 .. Len(last.ret) :
            i < j => ~(last.ret[i].type = "close" /\ last.ret[j].type = "open")

\* a close goes through on both venues after an earlier close did, each
\* after the open of its pair
C30_Witness ==
    /\ AfterClosePositions
    /\ Len(last.ret.calls) = 2
    /\ last.ret.calls[2].err = "none"
    /\ \E v \in Venues :
          Len(SelectSeq(pre[v].orders, LAMBDA r : r.side = "long")) = 1

---------------------------------------------------------------------------
\* Frame of the detector

\* C31: a tick's update_prices and a call of detect_opportunity leave every
\* simulator as it was: balances, quantities, entry prices, orders, and the
\* set of symbols for which it holds a position entry.
C31_DetectorLeavesSimulators ==
    (AfterTick \/ AfterDetect) =>
        \A v \in Venues :
            /\ sims[v] = pre[v]
            /\ DOMAIN sims[v].positions = DOMAIN pre[v].positions

---------------------------------------------------------------------------
\* The detector's active pairs and the tracker

PairKeys == {PairKey(pr[1], pr[2]) : pr \in VenuePairs}

\* the tracker holds an entry under the key
Tracked(tracker, pair_key) ==
    pair_key \in DOMAIN tracker /\ DOMAIN tracker[pair_key] # {}

\* C32: whenever the coordinator has returned, a pair key is active in the
\* detector exactly when the tracker holds an entry under it.
C32_ActivePairsMatchTracker ==
    \A pair_key \in PairKeys :
        (pair_key \in ActivePairs) <=> Tracked(position_tracker, pair_key)

---------------------------------------------------------------------------
\* The tracker against the simulators' quantities

RECURSIVE TrackedSum(_, _, _, _, _)
\* the sum of the amounts the tracker holds for the symbol under the pairs
\* that name v as their buy venue (role "buy") or as their sell venue (role
\* "sell"), the other venue of the pair being one of others
TrackedSum(tracker, v, symbol, role, others) ==
    IF others = {} THEN 0
    ELSE LET o == CHOOSE x \in others : TRUE
             a == IF role = "buy" THEN Registered(tracker, v, o, symbol)
                  ELSE Registered(tracker, o, v, symbol)
         IN  (IF a = None THEN 0 ELSE a)
                 + TrackedSum(tracker, v, symbol, role, others \ {o})

---------------------------------------------------------------------------
\* The slots the coordinator's orders go to

AfterRun == last.op = "run_opportunities"

---------------------------------------------------------------------------
\* The balance over orders and closes

\* C35: a place_order or close_position of a positive amount that succeeds on
\* a simulator whose quote balance is not negative leaves it not negative, so
\* that no run of such calls takes the balance below zero.
C35_BalanceNeverNegative ==
    ((AfterPlace \/ AfterClose) /\ last.err = "none" /\ last.amount > 0
        /\ pre[last.venue].real_balance[Quote(last.symbol)] >= 0)
    => sims[last.venue].real_balance[Quote(last.symbol)] >= 0

===========================================================================
